---- MODULE Spec2Model ----
(***************************************************************************)
(* A model of create_make.py: the Makefile generator that scans a          *)
(* directory of C/C++ sources, classifies the files (Source_Files.add_file),*)
(* finds the file holding the main function, and scans every compiled unit *)
(* for the headers it includes (find_includes, create_depend).             *)
(*                                                                         *)
(* Python strings and file contents are sequences of one-character         *)
(* strings; a Python index or slice is modelled with Python's meaning      *)
(* (0-based, negative indices counted from the end).                       *)
(*                                                                         *)
(* Two specifications:                                                     *)
(*   Spec      one run of the program on a directory (the __main__ block)  *)
(*   SpecScan  find_includes applied to one file content and header list   *)
(***************************************************************************)
EXTENDS Integers, Sequences, FiniteSets

VARIABLES
    \* ---- one run of the program (Spec) ----
    pc,          \* position in the __main__ block
    dir,         \* the directory: a set of entries [name, isfile, content]
    remaining,   \* entries os.scandir has not yielded yet
    files,       \* Source_Files.files: extension -> <<list, string, count>>
    main,        \* Source_Files.main: <<name, ext>>
    obj,         \* Source_Files.obj: <<list, string, count>>
    mainSrc,     \* the name of the file add_file registered in main (<<>>: none)
    objSrc,      \* for each entry of obj[0], the file add_file was called with
    total_files, \* Source_Files.total_files
    err,         \* the exception that ended the run ("" while none)
    errArgs,     \* the two file names MultipleMainError was raised with
    depIdx,      \* create_depend: number of entries of obj[0] processed
    includes,    \* create_depend: the local variable includes
    depends,     \* create_depend: the lines built so far, <<object, includes>>
    target,      \* what create_target returned: <<file_head, compiler>>
    makefile,    \* what output_Makefile wrote (NotWritten before)
    \* ---- find_includes on its own (SpecScan) ----
    sContent,    \* the bytes of the mapped file
    sHeaders,    \* files.files['.h'][0]
    sIdx,        \* number of headers the for loop has processed
    sIncludes,   \* the local variable includes
    sStatus      \* "scanning", "returned" or the exception raised

runVars == <<pc, dir, remaining, files, main, mainSrc, obj, objSrc, total_files,
             err, errArgs, depIdx, includes, depends, target, makefile>>
scanVars == <<sContent, sHeaders, sIdx, sIncludes, sStatus>>
vars == <<runVars, scanVars>>

----------------------------------------------------------------------------
(* Bounds of the model *)

\* the largest number of entries in the scanned directory
MaxEntries == 3
\* the largest number of text segments a scanned file content is built from
MaxSegs == 3

----------------------------------------------------------------------------
(* Program constants *)

\* the cap of the backward walk in find_includes (found_byte - start > 100)
Cap == 100

\* b"int main("
Marker == <<"i","n","t"," ","m","a","i","n","(">>
\* '#include'
Directive == <<"#","i","n","c","l","u","d","e">>
\* FILE_EXTS['OBJ_SUF']
OBJ_SUF == <<".","o">>
EXT_C == <<".","c">>
EXT_CPP == <<".","c","p","p">>
EXT_PS == <<".","p","s">>
EXT_S == <<".","s">>
EXT_H == <<".","h">>
\* the value ext gets for a name that does not split in two
EXT_NONE == <<"N","o","n","e">>
\* the keys of Source_Files.files
FileKeys == {EXT_C, EXT_CPP, EXT_PS, EXT_S, EXT_H}

----------------------------------------------------------------------------
(* Python's string and bytes operations *)

\* s[p] for a Python index p: defined when -len(s) <= p < len(s)
InRange(s, p) == -Len(s) <= p /\ p < Len(s)
At(s, p) == s[(IF p < 0 THEN p + Len(s) ELSE p) + 1]

\* the normalised bound of a slice: negative counts from the end, then clamped
SliceBound(s, i) ==
    LET j == IF i < 0 THEN i + Len(s) ELSE i
    IN  IF j < 0 THEN 0 ELSE IF j > Len(s) THEN Len(s) ELSE j

\* s[a:b]
Slice(s, a, b) ==
    LET lo == SliceBound(s, a)
        hi == SliceBound(s, b)
    IN  IF hi <= lo THEN <<>> ELSE SubSeq(s, lo + 1, hi)

\* whether pat occurs in s at the 0-based offset i
OccursAt(s, pat, i) ==
    /\ i >= 0
    /\ i + Len(pat) <= Len(s)
    /\ SubSeq(s, i + 1, i + Len(pat)) = pat

\* s.find(pat): the lowest offset of pat in s, -1 when there is none
Find(s, pat) ==
    LET hits == {i \in 0..(Len(s) - Len(pat)) : OccursAt(s, pat, i)}
    IN  IF hits = {} THEN -1
        ELSE CHOOSE i \in hits : \A j \in hits : i <= j

IsSpace(c) == c = " "

\* s.strip()
RECURSIVE LStrip(_)
LStrip(s) ==
    IF s # <<>> /\ IsSpace(Head(s)) THEN LStrip(Tail(s)) ELSE s
RECURSIVE RStrip(_)
RStrip(s) ==
    IF s # <<>> /\ IsSpace(s[Len(s)])
    THEN RStrip(SubSeq(s, 1, Len(s) - 1)) ELSE s
Strip(s) == RStrip(LStrip(s))

\* s.split('.'): the pieces between the dots, empty pieces kept
RECURSIVE SplitFrom(_, _, _)
SplitFrom(s, i, piece) ==
    IF i > Len(s) THEN <<piece>>
    ELSE IF s[i] = "." THEN <<piece>> \o SplitFrom(s, i + 1, <<>>)
    ELSE SplitFrom(s, i + 1, Append(piece, s[i]))
Split(s) == SplitFrom(s, 1, <<>>)

\* whether x is an element of the Python list l
InList(x, l) == \E i \in 1..Len(l) : l[i] = x

----------------------------------------------------------------------------
(* find_includes *)

\* WalkCond with the cap compared by >= : a '#' exactly Cap bytes back is passed
WalkCondOffByOne(m, found_byte, start) ==
    At(m, start) # "#" \/ found_byte - start >= Cap

\* the condition of the while loop at index start
WalkCond(m, found_byte, start) ==
    At(m, start) # "#" \/ found_byte - start > Cap

\* the while loop: start goes down from found_byte one byte at a time and
\* the loop ends at the first index where its condition is false; reading
\* the index below -len(m) raises IndexError. (The loop is stated by its
\* result, the highest index at or below found_byte where the condition is
\* false, because the walk is several hundred steps deep.)
WalkBack(m, found_byte) ==
    LET stops == {start \in (-Len(m))..found_byte :
                     ~WalkCond(m, found_byte, start)}
    IN  IF stops = {} THEN [raised |-> TRUE, start |-> -Len(m) - 1]
        ELSE [raised |-> FALSE,
              start |-> CHOOSE x \in stops : \A y \in stops : y <= x]

\* one iteration of the for loop over the headers:
\* "absent", "accept", "reject" or "IndexError"
HeaderOutcome(m, header) ==
    LET found_byte == Find(m, header)
    IN  IF found_byte = -1 THEN "absent"
        ELSE LET w == WalkBack(m, found_byte)
             IN  IF w.raised THEN "IndexError"
                 ELSE IF Slice(m, w.start, w.start + Len(Directive)) = Directive
                      THEN "accept" ELSE "reject"

\* the effect of one iteration on the local variable includes; [raised, val]
HeaderStep(m, header, acc) ==
    LET o == HeaderOutcome(m, header)
    IN  IF o = "IndexError" THEN [raised |-> "IndexError", val |-> acc]
        ELSE IF o = "accept"
             THEN [raised |-> "", val |-> acc \o header \o <<" ">>]
             ELSE [raised |-> "", val |-> acc]

\* the for loop from header number i on; [raised, val]
RECURSIVE FindLoop(_, _, _, _)
FindLoop(m, headers, i, acc) ==
    IF i > Len(headers) THEN [raised |-> "", val |-> acc]
    ELSE LET r == HeaderStep(m, headers[i], acc)
         IN  IF r.raised # "" THEN r
             ELSE FindLoop(m, headers, i + 1, r.val)

\* find_includes(files, filename) on the content of the file: mmap refuses
\* an empty file with ValueError
find_includes(m, headers) ==
    IF m = <<>> THEN [raised |-> "ValueError", val |-> <<>>]
    ELSE FindLoop(m, headers, 1, <<>>)

----------------------------------------------------------------------------
(* SpecScan: find_includes applied to one content and one header list *)

HdrA == <<"a",".","h">>
HdrB == <<"b",".","h">>
\* an include directive up to the opening bracket of the file name
SegInclude == Directive \o <<" ","<">>
\* the start of another preprocessor directive
SegOther == <<"#","i","f"," ">>
\* n bytes that are neither a '#' nor part of a header name
Pad(n) == [i \in 1..n |-> "x"]
\* the paddings that put the '#' of SegInclude exactly Cap and Cap + 1 bytes
\* before the text that follows the padding
PadIn == Pad(Cap - Len(SegInclude))
PadOut == Pad(Cap - Len(SegInclude) + 1)

Segments == {SegInclude, SegOther, HdrA, HdrB, <<"x">>, PadIn, PadOut}

\* the contents made of at most k segments
RECURSIVE Contents(_)
Contents(k) ==
    IF k = 0 THEN {<<>>}
    ELSE LET shorter == Contents(k - 1)
         IN  shorter \cup {c \o seg : c \in shorter, seg \in Segments}

HeaderLists == {<<>>, <<HdrA>>, <<HdrA, HdrB>>, <<HdrB, HdrA>>}

\* the Makefile before output_Makefile has written it
NotWritten == [written |-> FALSE, target |-> <<>>, objfiles |-> <<>>, depends |-> <<>>]

\* the run variables while find_includes is studied on its own
RunIdle ==
    /\ pc = "idle"
    /\ dir = {}
    /\ remaining = {}
    /\ files = [k \in FileKeys |-> <<<<>>, <<>>, 0>>]
    /\ main = <<<<>>, <<>>>>
    /\ obj = <<<<>>, <<>>, 0>>
    /\ mainSrc = <<>>
    /\ objSrc = <<>>
    /\ total_files = 0
    /\ err = ""
    /\ errArgs = <<>>
    /\ depIdx = 0
    /\ includes = [bound |-> FALSE, val |-> <<>>]
    /\ depends = <<>>
    /\ target = <<>>
    /\ makefile = NotWritten

ScanIdle ==
    /\ sContent = <<>>
    /\ sHeaders = <<>>
    /\ sIdx = 0
    /\ sIncludes = <<>>
    /\ sStatus = "idle"

ScanInit ==
    /\ RunIdle
    /\ sContent \in Contents(MaxSegs)
    /\ sHeaders \in HeaderLists
    /\ sIdx = 0
    /\ sIncludes = <<>>
    /\ sStatus = "opening"

\* includes = '' and the two with statements: mmap of an empty file raises
ScanOpen ==
    /\ sStatus = "opening"
    /\ sStatus' = IF sContent = <<>> THEN "ValueError" ELSE "scanning"
    /\ UNCHANGED <<sContent, sHeaders, sIdx, sIncludes, runVars>>

\* one iteration of: for header in files.files['.h'][0]
ScanHeader ==
    /\ sStatus = "scanning"
    /\ sIdx < Len(sHeaders)
    /\ LET r == HeaderStep(sContent, sHeaders[sIdx + 1], sIncludes)
       IN  /\ sIncludes' = r.val
           /\ sStatus' = IF r.raised # "" THEN r.raised ELSE "scanning"
           /\ sIdx' = IF r.raised # "" THEN sIdx ELSE sIdx + 1
    /\ UNCHANGED <<sContent, sHeaders, runVars>>

\* return includes
ScanReturn ==
    /\ sStatus = "scanning"
    /\ sIdx = Len(sHeaders)
    /\ sStatus' = "returned"
    /\ UNCHANGED <<sContent, sHeaders, sIdx, sIncludes, runVars>>

ScanNext == ScanOpen \/ ScanHeader \/ ScanReturn

SpecScan == ScanInit /\ [][ScanNext]_vars

----------------------------------------------------------------------------
(* Spec: one run of the program on a directory *)

\* file contents of the C and C++ sources of the model's directories
SrcEmpty == <<>>
SrcMain == Marker \o <<")">>
SrcIncA == SegInclude \o HdrA \o <<">">>
SrcBare == <<"/","/"," ">> \o HdrA
SrcPlain == <<"x">>
Sources == {SrcEmpty, SrcMain, SrcIncA, SrcBare, SrcPlain}

NameMC == <<"m",".","c">>
NameMCPP == <<"m",".","c","p","p">>
NameUC == <<"u",".","c">>
\* a name whose extension carries a blank: "v. c"
NamePadded == <<"v","."," ","c">>
NameTS == <<"t",".","s">>
\* a name with two dots
NameTwoDots == <<"a",".","b",".","c">>
\* the name of a subdirectory
NameSub == <<"d",".","c">>

Entry(n, f, c) == [name |-> n, isfile |-> f, content |-> c]

\* the directory entries a directory of the model is made of
Universe ==
    {Entry(n, TRUE, c) : n \in {NameMC, NameMCPP, NameUC}, c \in Sources}
    \cup {Entry(NamePadded, TRUE, SrcPlain), Entry(NamePadded, TRUE, SrcMain),
          Entry(HdrA, TRUE, SrcPlain), Entry(HdrB, TRUE, SrcPlain),
          Entry(NameTS, TRUE, SrcPlain), Entry(NameTwoDots, TRUE, SrcMain),
          Entry(NameSub, FALSE, <<>>)}

\* the directories of at most k entries: no two entries share a name
RECURSIVE Directories(_)
Directories(k) ==
    IF k = 0 THEN {{}}
    ELSE LET smaller == Directories(k - 1)
         IN  smaller \cup
             {d \cup {e} : d \in smaller,
                           e \in Universe}

DistinctNames(d) == \A e1, e2 \in d : e1.name = e2.name => e1 = e2

\* the content of the file of the directory with this name
ContentOf(n) == (CHOOSE e \in dir : e.name = n).content

\* Source_Files.__init__ (lines 141-150) and the locals of __main__
Init ==
    /\ pc = "scan"
    /\ dir \in {d \in Directories(MaxEntries) : DistinctNames(d)}
    /\ remaining = dir
    /\ files = [k \in FileKeys |-> <<<<>>, <<>>, 0>>]
    /\ main = <<<<>>, <<>>>>
    /\ mainSrc = <<>>
    /\ obj = <<<<>>, <<>>, 0>>
    /\ objSrc = <<>>
    /\ total_files = 0
    /\ err = ""
    /\ errArgs = <<>>
    /\ depIdx = 0
    /\ includes = [bound |-> FALSE, val |-> <<>>]
    /\ depends = <<>>
    /\ target = <<>>
    /\ makefile = NotWritten
    /\ ScanIdle

\* the extension add_file computes for a file name
ExtOf(filename) ==
    LET split_filename == Split(filename)
    IN  IF Len(split_filename) # 2 THEN EXT_NONE
        ELSE <<".">> \o Strip(split_filename[2])

\* the name (stem) add_file computes for a file name that splits in two
StemOf(filename) == Split(filename)[1]

\* AppendTo that leaves the count as it was
AppendToNoCount(fs, s) == <<Append(fs[1], s), fs[2] \o s \o <<" ">>, fs[3]>>

\* the three updates of a [list, string, count] triple
AppendTo(fs, s) == <<Append(fs[1], s), fs[2] \o s \o <<" ">>, fs[3] + 1>>

\* mmap_reader.find(b"int main(") != -1
HasMain(content) == Find(content, Marker) # -1

\* Source_Files.get_full_main
get_full_main == main[1] \o main[2]

\* MainTaken that never sees a registered main
MainTakenNever == FALSE

\* the test of line 178: a main file is registered already
MainTaken == get_full_main # <<>>

\* the exception ends the run; self.files and total_files keep their update
Raise(e, args) ==
    /\ pc' = "raised"
    /\ err' = e
    /\ errArgs' = args

\* scan_files: the next entry is a file, add_file(entry)
AddFile(file) ==
    /\ pc = "scan"
    /\ file \in remaining
    /\ file.isfile
    /\ remaining' = remaining \ {file}
    /\ LET ext == ExtOf(file.name)
           name == StemOf(file.name)
       IN  /\ IF ext \in FileKeys
              THEN /\ files' = [files EXCEPT ![ext] = AppendTo(@, file.name)]
                   /\ total_files' = total_files + 1
              ELSE UNCHANGED <<files, total_files>>
           /\ IF ext = EXT_C \/ ext = EXT_CPP
              THEN IF file.content = <<>>
                   THEN \* mmap of an empty file
                        /\ Raise("ValueError", <<>>)
                        /\ UNCHANGED <<main, mainSrc, obj, objSrc>>
                   ELSE IF ~HasMain(file.content)
                   THEN /\ obj' = AppendTo(obj, name \o OBJ_SUF)
                        /\ objSrc' = Append(objSrc, file.name)
                        /\ UNCHANGED <<pc, err, errArgs, main, mainSrc>>
                   ELSE IF MainTaken
                   THEN /\ Raise("MultipleMainError", <<get_full_main, file.name>>)
                        /\ UNCHANGED <<main, mainSrc, obj, objSrc>>
                   ELSE /\ main' = <<name, ext>>
                        /\ mainSrc' = file.name
                        /\ UNCHANGED <<pc, err, errArgs, obj, objSrc>>
              ELSE UNCHANGED <<pc, err, errArgs, main, mainSrc, obj, objSrc>>
    /\ UNCHANGED <<dir, depIdx, includes, depends, target, makefile, scanVars>>

\* scan_files: the next entry is not a file
SkipEntry(entry) ==
    /\ pc = "scan"
    /\ entry \in remaining
    /\ ~entry.isfile
    /\ remaining' = remaining \ {entry}
    /\ UNCHANGED <<pc, dir, files, main, mainSrc, obj, objSrc, total_files, err,
                   errArgs, depIdx, includes, depends, target, makefile, scanVars>>

\* the end of scan_files; gather_files and create_definitions return
ScanDone ==
    /\ pc = "scan"
    /\ remaining = {}
    /\ pc' = "target"
    /\ UNCHANGED <<dir, remaining, files, main, mainSrc, obj, objSrc, total_files,
                   err, errArgs, depIdx, includes, depends, target, makefile,
                   scanVars>>

\* create_target
create_target ==
    /\ pc = "target"
    /\ target' = <<main[1], IF main[2] = EXT_C THEN "CC" ELSE "CXX">>
    /\ pc' = "depend"
    /\ UNCHANGED <<dir, remaining, files, main, mainSrc, obj, objSrc, total_files,
                   err, errArgs, depIdx, includes, depends, makefile, scanVars>>

\* filename[:-2]
StemOfObject(filename) == Slice(filename, 0, -2)

\* DependSource that tries .cpp before .c
DependSourceCppFirst(filename) ==
    LET name_c == StemOfObject(filename) \o EXT_C
        name_cpp == StemOfObject(filename) \o EXT_CPP
    IN  IF InList(name_cpp, files[EXT_CPP][1]) THEN <<name_cpp>>
        ELSE IF InList(name_c, files[EXT_C][1]) THEN <<name_c>>
        ELSE <<>>

\* the source file create_depend scans for an object name: <<name>>, or
\* <<>> when neither branch of the if is taken
DependSource(filename) ==
    LET name_c == StemOfObject(filename) \o EXT_C
        name_cpp == StemOfObject(filename) \o EXT_CPP
    IN  IF InList(name_c, files[EXT_C][1]) THEN <<name_c>>
        ELSE IF InList(name_cpp, files[EXT_CPP][1]) THEN <<name_cpp>>
        ELSE <<>>

\* create_depend: one iteration of: for filename in files.obj[0]
DependStep ==
    /\ pc = "depend"
    /\ depIdx < Len(obj[1])
    /\ LET filename == obj[1][depIdx + 1]
           src == DependSource(filename)
           found == IF src = <<>> THEN [raised |-> "", val |-> <<>>]
                    ELSE find_includes(ContentOf(src[1]), files[EXT_H][1])
           after == IF src = <<>> THEN includes
                    ELSE [bound |-> TRUE, val |-> found.val]
       IN  IF found.raised # ""
           THEN /\ Raise(found.raised, <<>>)
                /\ UNCHANGED <<depIdx, includes, depends>>
           ELSE IF ~after.bound
           THEN \* depends += includes + '\n' reads a local never assigned
                /\ Raise("UnboundLocalError", <<>>)
                /\ UNCHANGED <<depIdx, includes, depends>>
           ELSE /\ includes' = after
                /\ depends' = Append(depends, <<filename, after.val>>)
                /\ depIdx' = depIdx + 1
                /\ UNCHANGED <<pc, err, errArgs>>
    /\ UNCHANGED <<dir, remaining, files, main, mainSrc, obj, objSrc, total_files,
                   target, makefile, scanVars>>

\* create_depend returns
DependDone ==
    /\ pc = "depend"
    /\ depIdx = Len(obj[1])
    /\ pc' = "misc"
    /\ UNCHANGED <<dir, remaining, files, main, mainSrc, obj, objSrc, total_files,
                   err, errArgs, depIdx, includes, depends, target, makefile,
                   scanVars>>

\* create_misc
create_misc ==
    /\ pc = "misc"
    /\ pc' = "output"
    /\ UNCHANGED <<dir, remaining, files, main, mainSrc, obj, objSrc, total_files,
                   err, errArgs, depIdx, includes, depends, target, makefile,
                   scanVars>>

\* output_Makefile
output_Makefile ==
    /\ pc = "output"
    /\ makefile' = [written |-> TRUE, target |-> target, objfiles |-> obj[2],
                    depends |-> depends]
    /\ pc' = "done"
    /\ UNCHANGED <<dir, remaining, files, main, mainSrc, obj, objSrc, total_files,
                   err, errArgs, depIdx, includes, depends, target, scanVars>>

Next ==
    \/ \E file \in remaining : AddFile(file)
    \/ \E entry \in remaining : SkipEntry(entry)
    \/ ScanDone
    \/ create_target
    \/ DependStep
    \/ DependDone
    \/ create_misc
    \/ output_Makefile

Spec == Init /\ [][Next]_vars

----------------------------------------------------------------------------
(* Properties of find_includes, checked under SpecScan *)

\* whether the returned string names the header
InIncludes(header, inc) == Find(inc, header \o <<" ">>) # -1

Max(a, b) == IF a > b THEN a ELSE b

\* the first occurrence of the header has no '#' at any of the up to Cap
\* byte positions before it
NoHashBefore(m, header) ==
    LET f == Find(m, header)
    IN  /\ f >= 0
        /\ \A p \in Max(0, f - Cap)..(f - 1) : At(m, p) # "#"

\* some occurrence of the header has, within Cap bytes before it, a '#'
\* that starts the 8 bytes '#include'
SomeDirectiveBefore(m, header) ==
    \E q \in 0..(Len(m) - 1) :
        /\ OccursAt(m, header, q)
        /\ \E p \in Max(0, q - Cap)..(q - 1) : OccursAt(m, Directive, p)

\* the nearest '#' at or before the first occurrence of the header is at
\* most Cap bytes back and starts the 8 bytes '#include'
NearestHashIsDirective(m, header) ==
    LET f == Find(m, header)
    IN  /\ f >= 0
        /\ \E p \in Max(0, f - Cap)..f :
              /\ OccursAt(m, Directive, p)
              /\ \A r \in (p + 1)..f : At(m, r) # "#"

\* C4: a header whose first occurrence has no '#' in the up to 100 bytes
\* before it is never part of the result of find_includes, whatever follows
\* the occurrence in the file.
C4_NoHashNeverIncluded ==
    \A i \in 1..Len(sHeaders) :
        NoHashBefore(sContent, sHeaders[i]) => ~InIncludes(sHeaders[i], sIncludes)

\* C5 as stated: a header with any occurrence preceded within 100 bytes by
\* a '#include' is part of the result find_includes returns, whatever
\* surrounds it (earlier occurrences, other '#' in between).
C5_AnyDirectiveAccepted ==
    sStatus = "returned" =>
        \A i \in 1..Len(sHeaders) :
            SomeDirectiveBefore(sContent, sHeaders[i])
                => InIncludes(sHeaders[i], sIncludes)

\* C5 amended: when the nearest '#' at or before the FIRST occurrence of the
\* header is at most 100 bytes back and starts '#include', the iteration
\* for that header does not raise and appends the header to the result.
C5_NearestDirectiveAccepted ==
    \A i \in 1..Len(sHeaders) :
        NearestHashIsDirective(sContent, sHeaders[i]) =>
            /\ (i <= sIdx => InIncludes(sHeaders[i], sIncludes))
            /\ ~(i = sIdx + 1 /\ sStatus = "IndexError")

\* C5 witness: find_includes returned a header whose '#include' starts
\* exactly Cap bytes before the header name.
C5_Witness ==
    /\ sStatus = "returned"
    /\ sContent = SegInclude \o PadIn \o HdrA
    /\ Find(sContent, HdrA) = Cap
    /\ sHeaders = <<HdrA>>
    /\ sIncludes = HdrA \o <<" ">>

\* C7: find_includes never ends with an exception from the backward walk:
\* past 100 bytes, or at the start of the file, it gives the header up and
\* goes on with the next one.
C7_WalkNeverRaises == sStatus # "IndexError"

----------------------------------------------------------------------------
(* Properties of a run, checked under Spec *)

\* the files of the directory that are C or C++ sources holding the marker
MarkerFiles ==
    {e \in dir : /\ e.isfile
                 /\ ExtOf(e.name) \in {EXT_C, EXT_CPP}
                 /\ HasMain(e.content)}

\* the marker-bearing files add_file has been called with
MarkerFilesScanned == MarkerFiles \ remaining

\* the run has ended, by an exception or after output_Makefile
Ended == pc \in {"raised", "done"}

\* scan_files has returned: the run is past the scan, or ended by an
\* exception that only create_depend raises
ScanCompleted ==
    \/ pc \in {"target", "depend", "misc", "output", "done"}
    \/ pc = "raised" /\ err \in {"IndexError", "UnboundLocalError"}

\* C1: in a directory with two or more marker-bearing files the run ends,
\* whatever the scan order, with MultipleMainError raised at the second
\* marker-bearing file scanned, naming the registered main file and the
\* current file, and the Makefile is never written.
C1_TwoMainsFailWithBothNamed ==
    Cardinality(MarkerFiles) >= 2 =>
        /\ ~makefile.written
        /\ Ended =>
              /\ err = "MultipleMainError"
              /\ Cardinality(MarkerFilesScanned) = 2
              /\ errArgs[1] = mainSrc
              /\ {errArgs[1], errArgs[2]} = {e.name : e \in MarkerFilesScanned}

\* C2: in a directory with exactly one marker-bearing file the run ends
\* with the Makefile written, and the object list never holds the name
\* made of the entry point's stem and '.o'.
C2_OneMainSucceedsAndIsNoObject ==
    Cardinality(MarkerFiles) = 1 =>
        /\ Ended => (pc = "done" /\ makefile.written)
        /\ mainSrc # <<>> => ~InList(main[1] \o OBJ_SUF, obj[1])

\* C3: when the scan has ended with no main file registered, target
\* resolution fails with NoEntryPoint and the Makefile is not written.
C3_NoMainIsFatal ==
    (get_full_main = <<>> /\ ScanCompleted /\ pc # "target") =>
        /\ pc = "raised"
        /\ err = "NoEntryPoint"
        /\ ~makefile.written

\* C6: an object whose stem has neither stem.c in the C list nor stem.cpp
\* in the C++ list gets an empty dependency list, and create_depend raises
\* nothing for it.
C6_UnlistedSourceGetsEmptyList ==
    /\ \A i \in 1..Len(depends) :
          DependSource(obj[1][i]) = <<>> => depends[i][2] = <<>>
    /\ ~(pc = "raised" /\ err = "UnboundLocalError")

\* the headers find_includes returns for the file of this name
ScanOf(n) == find_includes(ContentOf(n), files[EXT_H][1]).val

\* C8 as stated: the dependency line of every object whose source is
\* listed holds the headers of the file the object was registered from.
C8_LineOfOwnSource ==
    \A i \in 1..Len(depends) :
        DependSource(obj[1][i]) # <<>> =>
            depends[i] = <<obj[1][i], ScanOf(objSrc[i])>>

\* C8 amended: the dependency line of an object holds the headers of
\* stem.c when stem.c is in the C list, else those of stem.cpp when that
\* is in the C++ list, whichever file the object was registered from.
C8_LineOfFirstCandidate ==
    \A i \in 1..Len(depends) :
        LET stem == StemOfObject(obj[1][i])
        IN  /\ InList(stem \o EXT_C, files[EXT_C][1])
                => depends[i] = <<obj[1][i], ScanOf(stem \o EXT_C)>>
            /\ (~InList(stem \o EXT_C, files[EXT_C][1])
                   /\ InList(stem \o EXT_CPP, files[EXT_CPP][1]))
                => depends[i] = <<obj[1][i], ScanOf(stem \o EXT_CPP)>>

\* C8 witness: m.c and m.cpp were both registered as objects, their own
\* header lists differ, and both lines hold the list of m.c.
C8_Witness ==
    /\ pc = "done"
    /\ objSrc = <<NameMCPP, NameMC>>
    /\ ScanOf(NameMC) # ScanOf(NameMCPP)
    /\ depends = <<<<obj[1][1], ScanOf(NameMC)>>, <<obj[1][2], ScanOf(NameMC)>>>>

\* C9: main is set at most once and never changed afterwards, and the
\* file registered as main is not the source of an entry of the object
\* list.
C9_MainSetOnce ==
    /\ [](/\ (mainSrc = <<>>) <=> (get_full_main = <<>>)
          /\ \A i \in 1..Len(objSrc) : objSrc[i] # mainSrc
          /\ mainSrc # <<>> =>
                main = <<StemOf(mainSrc), ExtOf(mainSrc)>>)
    /\ [][get_full_main # <<>> => main' = main /\ mainSrc' = mainSrc]_vars

\* C9 witness: a second marker-bearing file was scanned, the run ended
\* with MultipleMainError, and main still names the first one.
C9_Witness ==
    /\ err = "MultipleMainError"
    /\ mainSrc = errArgs[1]
    /\ errArgs[2] # mainSrc
    /\ main = <<StemOf(mainSrc), ExtOf(mainSrc)>>
    /\ Len(obj[1]) >= 1

\* the entries of a list, each followed by one blank
RECURSIVE Joined(_)
Joined(l) ==
    IF l = <<>> THEN <<>> ELSE Head(l) \o <<" ">> \o Joined(Tail(l))

\* a [list, string, count] triple is consistent
Consistent(fs) == fs[3] = Len(fs[1]) /\ fs[2] = Joined(fs[1])

IsPrefix(a, b) == Len(a) <= Len(b) /\ SubSeq(b, 1, Len(a)) = a

RECURSIVE SumCounts(_)
SumCounts(keys) ==
    IF keys = {} THEN 0
    ELSE LET k == CHOOSE x \in keys : TRUE
         IN  files[k][3] + SumCounts(keys \ {k})

\* C10: every file set and the object set keep count = length of the list
\* and string = the entries each followed by a blank; total_files is the
\* sum of the counts of the extensions; lists only grow at their end.
C10_FileSetsConsistent ==
    /\ [](/\ \A k \in FileKeys : Consistent(files[k])
          /\ Consistent(obj)
          /\ total_files = SumCounts(FileKeys))
    /\ [][/\ \A k \in FileKeys : IsPrefix(files[k][1], files'[k][1])
          /\ IsPrefix(obj[1], obj'[1])]_vars

\* C10 witness: two headers and a source were added, and an object name.
C10_Witness ==
    /\ files[EXT_H][3] = 2
    /\ files[EXT_H][2] = HdrB \o <<" ">> \o HdrA \o <<" ">>
    /\ obj[3] = 1
    /\ total_files = 3

====
